---- MODULE Spec2Model ----
(***************************************************************************)
(* The client facade of yandex-checkout-node (lib/index.js): the          *)
(* YandexCheckout constructor, its six public operations with their        *)
(* internal raw calls, and the promises they return.  The transport        *)
(* utility (lib/utils) and the result models (lib/models) are the          *)
(* facade's collaborators; they are modelled as far as the facade uses     *)
(* them.                                                                   *)
(***************************************************************************)
EXTENDS Integers, Sequences, FiniteSets

VARIABLES
    DEFAULT_TIMEOUT,  \* YandexCheckout.DEFAULT_TIMEOUT, read from the platform at load
    ctorArgs,         \* <<shopId, secretKey>>: the arguments init() is called with
    client,           \* the outcome of the constructor call
    calls,            \* the public operations invoked so far, with their promises
    requests          \* the calls made to utils.request, with their raw promises

vars == <<DEFAULT_TIMEOUT, ctorArgs, client, calls, requests>>

\* The number of public operations invoked on the client in one behaviour.
MaxCalls == 2

-----------------------------------------------------------------------------
(* JavaScript values.  Every value carries its type tag; an object is the  *)
(* set of its <<key, value>> properties.                                   *)

Undefined == [t |-> "undefined"]
Null == [t |-> "null"]
Str(s) == [t |-> "string", s |-> s]
Num(n) == [t |-> "number", n |-> n]
Bool(b) == [t |-> "boolean", b |-> b]
Obj(f) == [t |-> "object", f |-> f]

\* typeof v: null is reported as 'object'.
TypeOf(v) ==
    IF v.t = "null" THEN "object" ELSE v.t

\* ToBoolean(v), as the || operator applies it.
Truthy(v) ==
    CASE v.t = "undefined" -> FALSE
      [] v.t = "null" -> FALSE
      [] v.t = "string" -> v.s # ""
      [] v.t = "number" -> v.n # 0
      [] v.t = "boolean" -> v.b
      [] v.t = "object" -> TRUE

\* a || b
Or(a, b) ==
    IF Truthy(a) THEN a ELSE b

\* Whether o.k throws: a property read on null or undefined is a TypeError.
GetThrows(o) ==
    o.t \in {"null", "undefined"}

\* o.k for an object o: the property's value, undefined when o has none.
Get(o, k) ==
    IF o.t = "object" /\ \E p \in o.f : p[1] = k
    THEN (CHOOSE p \in o.f : p[1] = k)[2]
    ELSE Undefined

\* ToString(v), as a template literal and string + apply it.
ToString(v) ==
    CASE v.t = "undefined" -> "undefined"
      [] v.t = "null" -> "null"
      [] v.t = "string" -> v.s
      [] v.t = "boolean" -> IF v.b THEN "true" ELSE "false"
      [] v.t = "number" -> IF v.n = 0 THEN "0" ELSE "[number]"
      [] v.t = "object" -> "[object Object]"

\* a + b where one operand is a string: the concatenation of both as strings.
Plus(a, b) ==
    Str(ToString(a) \o ToString(b))

-----------------------------------------------------------------------------
(* The constructor.                                                        *)

DEFAULT_BASE_HOST == Str("https://api.yookassa.ru")
DEFAULT_BASE_PATH == Str("/v3/")
DEFAULT_DEBUG == Bool(FALSE)

\* http.createServer().timeout: 120000 ms before Node 13, 0 (none) since.
PlatformTimeouts == {Num(0), Num(120000)}

\* The options the constructor reads its fields from (lines 8-17).
Options(shopId, secretKey) ==
    IF TypeOf(shopId) = "object"
    THEN shopId
    ELSE Obj({<<"shopId", shopId>>, <<"secretKey", secretKey>>})

\* a ?? b
Nullish(a, b) ==
    IF a.t \in {"undefined", "null"} THEN b ELSE a

\* The constructor with ?? in place of ||: a falsy value the caller supplied
\* is kept.
YandexCheckoutNullish(shopId, secretKey, defaultTimeout) ==
    LET options == Options(shopId, secretKey) IN
    IF GetThrows(options)
    THEN [status |-> "threw", error |-> "TypeError"]
    ELSE [status |-> "returned",
          this |-> [shopId |-> Get(options, "shopId"),
                    secretKey |-> Get(options, "secretKey"),
                    root |-> Plus(Nullish(Get(options, "base_host"), DEFAULT_BASE_HOST),
                                  Nullish(Get(options, "base_path"), DEFAULT_BASE_PATH)),
                    debug |-> Nullish(Get(options, "debug"), DEFAULT_DEBUG),
                    timeout |-> Nullish(Get(options, "timeout"), defaultTimeout)]]

\* new YandexCheckout(shopId, secretKey): the instance, or the TypeError of
\* reading a property of null.
YandexCheckout(shopId, secretKey, defaultTimeout) ==
    LET options == Options(shopId, secretKey) IN
    IF GetThrows(options)
    THEN [status |-> "threw", error |-> "TypeError"]
    ELSE [status |-> "returned",
          this |-> [shopId |-> Get(options, "shopId"),
                    secretKey |-> Get(options, "secretKey"),
                    root |-> Plus(Or(Get(options, "base_host"), DEFAULT_BASE_HOST),
                                  Or(Get(options, "base_path"), DEFAULT_BASE_PATH)),
                    debug |-> Or(Get(options, "debug"), DEFAULT_DEBUG),
                    timeout |-> Or(Get(options, "timeout"), defaultTimeout)]]

\* init(shopId, secretKey), the module's export.
init(shopId, secretKey, defaultTimeout) ==
    YandexCheckout(shopId, secretKey, defaultTimeout)

NotConstructed == [status |-> "none"]

\* The values a caller passes for a credential: present, or missing in each way.
ShopIds == {Str("shop-1"), Undefined, Null}
SecretKeys == {Str("secret-1"), Undefined, Null}

\* The properties a configuration object may carry, each absent or with a value.
OptionValues(k) ==
    CASE k = "shopId" -> {Str("shop-1"), Null}
      [] k = "secretKey" -> {Str("secret-1")}
      [] k = "base_host" -> {Str(""), Str("https://sandbox.example")}
      [] k = "base_path" -> {Str(""), Str("/v9/")}
      [] k = "debug" -> {Bool(TRUE), Bool(FALSE)}
      [] k = "timeout" -> {Num(0), Num(5000)}

OptionKeys == {"shopId", "secretKey", "base_host", "base_path", "debug", "timeout"}

OptionObjects ==
    { Obj(f) : f \in { g \in SUBSET UNION { {<<k, v>> : v \in OptionValues(k)} : k \in OptionKeys } :
                        \A p \in g, q \in g : p[1] = q[1] => p = q } }

\* The argument lists of a constructor call: positional, or a configuration object.
CtorArgs ==
    (ShopIds \X SecretKeys) \cup (OptionObjects \X {Undefined, Str("secret-1")})

InitCtor ==
    /\ DEFAULT_TIMEOUT \in PlatformTimeouts
    /\ ctorArgs \in CtorArgs
    /\ client = NotConstructed
    /\ calls = <<>>
    /\ requests = <<>>

\* The caller constructs the client (line 410).
Construct ==
    /\ client = NotConstructed
    /\ client' = init(ctorArgs[1], ctorArgs[2], DEFAULT_TIMEOUT)
    /\ UNCHANGED <<DEFAULT_TIMEOUT, ctorArgs, calls, requests>>

NextCtor ==
    Construct

SpecCtor ==
    InitCtor /\ [][NextCtor]_vars

-----------------------------------------------------------------------------
(* The transport utility and the result models, as the facade uses them.   *)

\* utils.request.call(self, method, path, body, idempotenceKey): the HTTP
\* request it builds from the client's configuration and its arguments.
utils_request(self, a) ==
    [method |-> a.method,
     uri |-> Plus(self.root, a.path),
     auth |-> [user |-> self.shopId, pass |-> self.secretKey],
     headers |-> IF a.idempotenceKey = Undefined
                 THEN {}
                 ELSE {<<"Idempotence-Key", a.idempotenceKey>>},
     body |-> a.body,
     timeout |-> self.timeout]

\* new Payment(instance, data), new Refund(instance, data): a value object
\* holding the response's fields.
Payment(instance, data) ==
    [model |-> "Payment", data |-> data]

Refund(instance, data) ==
    [model |-> "Refund", data |-> data]

\* A promise: pending, fulfilled with a value, or rejected with a reason.
Pending == [state |-> "pending"]
Fulfilled(v) == [state |-> "fulfilled", value |-> v]
Rejected(e) == [state |-> "rejected", reason |-> e]

\* What the remote API answers request r with: the resource it created or
\* looked up for that request.
ResourceNames == <<"res-1", "res-2", "res-3", "res-4", "res-5", "res-6">>

Datas(r) ==
    {Obj({<<"id", Str(ResourceNames[r])>>, <<"status", Str("succeeded")>>})}

\* How a request fails.
Errors ==
    {[name |-> "APIError", status |-> "401"], [name |-> "TransportError"]}

-----------------------------------------------------------------------------
(* The internal raw calls: the arguments each hands to utils.request.      *)

EmptyObject == Obj({})

_createPayment(payload, idempotenceKey) ==
    [method |-> "POST", path |-> Str("payments"), body |-> payload,
     idempotenceKey |-> idempotenceKey]

_getPaymentInfo(paymentId, idempotenceKey) ==
    [method |-> "GET", path |-> Str("payments/" \o ToString(paymentId)),
     body |-> EmptyObject, idempotenceKey |-> idempotenceKey]

\* The capture call with the amount itself as the body, not wrapped in {amount}.
_capturePaymentBareAmount(paymentId, amount, idempotenceKey) ==
    [method |-> "POST",
     path |-> Str("payments/" \o ToString(paymentId) \o "/capture"),
     body |-> amount, idempotenceKey |-> idempotenceKey]

_capturePayment(paymentId, amount, idempotenceKey) ==
    [method |-> "POST",
     path |-> Str("payments/" \o ToString(paymentId) \o "/capture"),
     body |-> Obj({<<"amount", amount>>}), idempotenceKey |-> idempotenceKey]

_cancelPayment(paymentId, idempotenceKey) ==
    [method |-> "POST",
     path |-> Str("payments/" \o ToString(paymentId) \o "/cancel"),
     body |-> EmptyObject, idempotenceKey |-> idempotenceKey]

\* The refund call with a key of the client's own when the caller gave none.
_createRefundDefaultKey(paymentId, amount, idempotenceKey) ==
    [method |-> "POST", path |-> Str("refunds"),
     body |-> Obj({<<"amount", amount>>, <<"payment_id", paymentId>>}),
     idempotenceKey |-> Or(idempotenceKey, Str("generated-key"))]

_createRefund(paymentId, amount, idempotenceKey) ==
    [method |-> "POST", path |-> Str("refunds"),
     body |-> Obj({<<"amount", amount>>, <<"payment_id", paymentId>>}),
     idempotenceKey |-> idempotenceKey]

_getRefundInfo(refundId, idempotenceKey) ==
    [method |-> "GET", path |-> Str("refunds/" \o ToString(refundId)),
     body |-> EmptyObject, idempotenceKey |-> idempotenceKey]

-----------------------------------------------------------------------------
(* The public operations.                                                  *)

\* The callback with every operation building a Payment.
OnFulfilledAlwaysPayment(op, _self, data) ==
    Payment(_self, data)

\* The callback a public operation chains on its raw call: data => new X(_self, data).
OnFulfilled(op, _self, data) ==
    CASE op = "createPayment" -> Payment(_self, data)
      [] op = "getPayment" -> Payment(_self, data)
      [] op = "capturePayment" -> Payment(_self, data)
      [] op = "cancelPayment" -> Payment(_self, data)
      [] op = "createRefund" -> Refund(_self, data)
      [] op = "getRefund" -> Refund(_self, data)

\* The chaining with the callback given for rejection too: a failure is
\* turned into a model built from the error.
ThenAlsoOnRejected(raw, op, _self) ==
    IF raw.state = "fulfilled"
    THEN Fulfilled(OnFulfilled(op, _self, raw.value))
    ELSE Fulfilled(OnFulfilled(op, _self, raw.reason))

\* raw.then(onFulfilled) once raw has settled: the callback's result when raw
\* is fulfilled; raw's own reason when it is rejected (no onRejected is given).
Then(raw, op, _self) ==
    IF raw.state = "fulfilled"
    THEN Fulfilled(OnFulfilled(op, _self, raw.value))
    ELSE raw

\* this._x(...).then(...): the raw call is handed to utils.request and the
\* public promise is chained on the raw promise it returns.
Invoke(op, args, idempotenceKey, a) ==
    /\ client.status = "returned"
    /\ Len(calls) < MaxCalls
    /\ requests' = Append(requests,
                          [call |-> Len(calls) + 1,
                           args |-> a,
                           wire |-> utils_request(client.this, a),
                           promise |-> Pending])
    /\ calls' = Append(calls,
                       [op |-> op,
                        args |-> args,
                        idempotenceKey |-> idempotenceKey,
                        raw |-> Len(requests) + 1,
                        promise |-> Pending])

createPayment(payload, idempotenceKey) ==
    /\ Invoke("createPayment", <<payload>>, idempotenceKey,
              _createPayment(payload, idempotenceKey))
    /\ UNCHANGED <<DEFAULT_TIMEOUT, ctorArgs, client>>

getPayment(paymentId, idempotenceKey) ==
    /\ Invoke("getPayment", <<paymentId>>, idempotenceKey,
              _getPaymentInfo(paymentId, idempotenceKey))
    /\ UNCHANGED <<DEFAULT_TIMEOUT, ctorArgs, client>>

capturePayment(paymentId, amount, idempotenceKey) ==
    /\ Invoke("capturePayment", <<paymentId, amount>>, idempotenceKey,
              _capturePayment(paymentId, amount, idempotenceKey))
    /\ UNCHANGED <<DEFAULT_TIMEOUT, ctorArgs, client>>

\* The cancel operation writing to the client it is called on.
cancelPaymentWritingSelf(paymentId, idempotenceKey) ==
    /\ Invoke("cancelPayment", <<paymentId>>, idempotenceKey,
              _cancelPayment(paymentId, idempotenceKey))
    /\ client' = [client EXCEPT !.this.debug = Bool(FALSE),
                                !.this.timeout = Num(0)]
    /\ UNCHANGED <<DEFAULT_TIMEOUT, ctorArgs>>

cancelPayment(paymentId, idempotenceKey) ==
    /\ Invoke("cancelPayment", <<paymentId>>, idempotenceKey,
              _cancelPayment(paymentId, idempotenceKey))
    /\ UNCHANGED <<DEFAULT_TIMEOUT, ctorArgs, client>>

createRefund(paymentId, amount, idempotenceKey) ==
    /\ Invoke("createRefund", <<paymentId, amount>>, idempotenceKey,
              _createRefund(paymentId, amount, idempotenceKey))
    /\ UNCHANGED <<DEFAULT_TIMEOUT, ctorArgs, client>>

getRefund(refundId, idempotenceKey) ==
    /\ Invoke("getRefund", <<refundId>>, idempotenceKey,
              _getRefundInfo(refundId, idempotenceKey))
    /\ UNCHANGED <<DEFAULT_TIMEOUT, ctorArgs, client>>

\* The chained callback re-issuing the request when the raw call failed.
PromiseThenRetry(i) ==
    /\ i \in DOMAIN calls
    /\ calls[i].promise.state = "pending"
    /\ requests[calls[i].raw].promise.state # "pending"
    /\ IF requests[calls[i].raw].promise.state = "rejected"
       THEN /\ requests' = Append(requests,
                                  [requests[calls[i].raw] EXCEPT !.promise = Pending])
            /\ calls' = [calls EXCEPT ![i].raw = Len(requests) + 1]
       ELSE /\ calls' = [calls EXCEPT ![i].promise =
                            Then(requests[calls[i].raw].promise, calls[i].op, client.this)]
            /\ UNCHANGED requests
    /\ UNCHANGED <<DEFAULT_TIMEOUT, ctorArgs, client>>

\* The chained callback reading the promise of the request issued last,
\* whichever call issued it.
PromiseThenLatest(i) ==
    /\ i \in DOMAIN calls
    /\ calls[i].promise.state = "pending"
    /\ requests[Len(requests)].promise.state # "pending"
    /\ calls' = [calls EXCEPT ![i].promise =
                    Then(requests[Len(requests)].promise, calls[i].op, client.this)]
    /\ UNCHANGED <<DEFAULT_TIMEOUT, ctorArgs, client, requests>>

\* The chained callback of call i runs: its raw promise has settled.
PromiseThen(i) ==
    /\ i \in DOMAIN calls
    /\ calls[i].promise.state = "pending"
    /\ requests[calls[i].raw].promise.state # "pending"
    /\ calls' = [calls EXCEPT ![i].promise =
                    Then(requests[calls[i].raw].promise, calls[i].op, client.this)]
    /\ UNCHANGED <<DEFAULT_TIMEOUT, ctorArgs, client, requests>>

\* The transport utility's promise for request r is fulfilled with the parsed
\* response.
Respond(r, data) ==
    /\ r \in DOMAIN requests
    /\ requests[r].promise.state = "pending"
    /\ requests' = [requests EXCEPT ![r].promise = Fulfilled(data)]
    /\ UNCHANGED <<DEFAULT_TIMEOUT, ctorArgs, client, calls>>

\* The transport utility's promise for request r is rejected.
Fail(r, e) ==
    /\ r \in DOMAIN requests
    /\ requests[r].promise.state = "pending"
    /\ requests' = [requests EXCEPT ![r].promise = Rejected(e)]
    /\ UNCHANGED <<DEFAULT_TIMEOUT, ctorArgs, client, calls>>

\* The arguments callers pass: a call without an idempotence key, and a call
\* with one, each naming its own payment, refund, amount and payload.
CallerInputs ==
    {[paymentId |-> Str("pay-1"), refundId |-> Str("ref-1"),
      amount |-> Obj({<<"value", Str("2.00")>>, <<"currency", Str("RUB")>>}),
      payload |-> Obj({<<"amount", Obj({<<"value", Str("2.00")>>, <<"currency", Str("RUB")>>})>>,
                       <<"capture", Bool(TRUE)>>}),
      idempotenceKey |-> Undefined],
     [paymentId |-> Str("pay-2"), refundId |-> Str("ref-2"),
      amount |-> Obj({<<"value", Str("1.00")>>, <<"currency", Str("RUB")>>}),
      payload |-> Obj({<<"amount", Obj({<<"value", Str("1.00")>>, <<"currency", Str("RUB")>>})>>,
                       <<"description", Str("order 2")>>}),
      idempotenceKey |-> Str("6daac9fa-342d")]}

\* The client the operations are exercised on: built from a configuration
\* object that overrides the host and the debug flag and leaves the rest to
\* the defaults.
ClientArgs ==
    {<<Obj({<<"shopId", Str("shop-1")>>, <<"secretKey", Str("secret-1")>>,
            <<"base_host", Str("https://sandbox.example")>>,
            <<"debug", Bool(TRUE)>>}), Undefined>>}

Init ==
    /\ DEFAULT_TIMEOUT \in PlatformTimeouts
    /\ ctorArgs \in ClientArgs
    /\ client = init(ctorArgs[1], ctorArgs[2], DEFAULT_TIMEOUT)
    /\ calls = <<>>
    /\ requests = <<>>

Next ==
    \/ \E c \in CallerInputs : createPayment(c.payload, c.idempotenceKey)
    \/ \E c \in CallerInputs : getPayment(c.paymentId, c.idempotenceKey)
    \/ \E c \in CallerInputs : capturePayment(c.paymentId, c.amount, c.idempotenceKey)
    \/ \E c \in CallerInputs : cancelPayment(c.paymentId, c.idempotenceKey)
    \/ \E c \in CallerInputs : createRefund(c.paymentId, c.amount, c.idempotenceKey)
    \/ \E c \in CallerInputs : getRefund(c.refundId, c.idempotenceKey)
    \/ \E i \in DOMAIN calls : PromiseThen(i)
    \/ \E r \in DOMAIN requests : \E data \in Datas(r) : Respond(r, data)
    \/ \E r \in DOMAIN requests, e \in Errors : Fail(r, e)

Spec ==
    Init /\ [][Next]_vars

-----------------------------------------------------------------------------
(* Properties of the constructor, checked under SpecCtor.                  *)

\* The constructor was called with two positional values.
Positional ==
    ctorArgs \in ShopIds \X SecretKeys

\* C6: constructing with two positional values (shopId, secretKey) yields the
\* same configuration as constructing with the object {shopId, secretKey},
\* and the options not supplied take the defaults: root is
\* 'https://api.yookassa.ru' + '/v3/', debug is false and timeout is the
\* platform's default.
C6_PositionalEqualsObject ==
    (Positional /\ client # NotConstructed) =>
        /\ client = init(Obj({<<"shopId", ctorArgs[1]>>, <<"secretKey", ctorArgs[2]>>}),
                         Undefined, DEFAULT_TIMEOUT)
        /\ client.status = "returned"
        /\ client.this.shopId = ctorArgs[1]
        /\ client.this.secretKey = ctorArgs[2]
        /\ client.this.root = Str("https://api.yookassa.ru/v3/")
        /\ client.this.debug = Bool(FALSE)
        /\ client.this.timeout = DEFAULT_TIMEOUT

\* C7: construction never fails: whatever credentials are missing (absent,
\* undefined or null, positional or in an object), the constructor returns a
\* client.
C7_ConstructionNeverFails ==
    client # NotConstructed => client.status = "returned"

\* The value the caller supplied for option k: none when the arguments are
\* positional values.
Supplied(k) ==
    IF ctorArgs[1].t = "object" THEN Get(ctorArgs[1], k) ELSE Undefined

\* The caller's value when it is truthy, the default otherwise.
TruthyOrDefault(k, default) ==
    IF Truthy(Supplied(k)) THEN Supplied(k) ELSE default

\* C10: base_host, base_path, debug and timeout each take the caller's value
\* only when it is truthy and the default otherwise (a timeout of 0, an empty
\* base_host or an empty base_path is replaced), and root is the concatenation
\* of the resulting host and the resulting path.
C10_TruthyOrDefault ==
    client.status = "returned" =>
        /\ client.this.root =
              Str(TruthyOrDefault("base_host", DEFAULT_BASE_HOST).s
                  \o TruthyOrDefault("base_path", DEFAULT_BASE_PATH).s)
        /\ client.this.debug = TruthyOrDefault("debug", DEFAULT_DEBUG)
        /\ client.this.timeout = TruthyOrDefault("timeout", DEFAULT_TIMEOUT)
        /\ Supplied("timeout") = Num(0) => client.this.timeout = DEFAULT_TIMEOUT
        /\ Supplied("base_host") = Str("") /\ Supplied("base_path") = Undefined
              => client.this.root = Str("https://api.yookassa.ru/v3/")
        /\ Supplied("base_host") = Str("https://sandbox.example")
              /\ Supplied("base_path") \in {Undefined, Str("")}
              => client.this.root = Str("https://sandbox.example/v3/")

\* A client built from an object with timeout 0, an empty base_host and a
\* base_path of its own, on a platform whose default timeout is not 0.
C10_Witness ==
    /\ client.status = "returned"
    /\ Supplied("timeout") = Num(0)
    /\ Supplied("base_host") = Str("")
    /\ Supplied("base_path") = Str("/v9/")
    /\ DEFAULT_TIMEOUT = Num(120000)
    /\ client.this.timeout = Num(120000)
    /\ client.this.root = Str("https://api.yookassa.ru/v9/")

-----------------------------------------------------------------------------
(* Properties of the operations, checked under Spec.                       *)

\* The call that issued request r.
CallOf(r) ==
    calls[requests[r].call]

\* C1: each public operation hands utils.request the method, path and body of
\* its table row.
C1_RequestMatchesTable ==
    \A r \in DOMAIN requests :
        LET c == CallOf(r)
            a == requests[r].args
        IN  CASE c.op = "createPayment" ->
                   /\ a.method = "POST"
                   /\ a.path = Str("payments")
                   /\ a.body = c.args[1]
              [] c.op = "getPayment" ->
                   /\ a.method = "GET"
                   /\ a.path = Str("payments/" \o c.args[1].s)
                   /\ a.body = Obj({})
              [] c.op = "capturePayment" ->
                   /\ a.method = "POST"
                   /\ a.path = Str("payments/" \o c.args[1].s \o "/capture")
                   /\ a.body = Obj({<<"amount", c.args[2]>>})
              [] c.op = "cancelPayment" ->
                   /\ a.method = "POST"
                   /\ a.path = Str("payments/" \o c.args[1].s \o "/cancel")
                   /\ a.body = Obj({})
              [] c.op = "createRefund" ->
                   /\ a.method = "POST"
                   /\ a.path = Str("refunds")
                   /\ a.body = Obj({<<"amount", c.args[2]>>, <<"payment_id", c.args[1]>>})
              [] c.op = "getRefund" ->
                   /\ a.method = "GET"
                   /\ a.path = Str("refunds/" \o c.args[1].s)
                   /\ a.body = Obj({})

\* A capture and a refund have both been handed to utils.request.
C1_Witness ==
    /\ \E r \in DOMAIN requests : CallOf(r).op = "capturePayment"
    /\ \E r \in DOMAIN requests : CallOf(r).op = "createRefund"

\* C2: the idempotency key the caller passed reaches utils.request unchanged,
\* and a call made without a key hands utils.request no key.
C2_KeyForwarded ==
    \A r \in DOMAIN requests :
        /\ requests[r].args.idempotenceKey = CallOf(r).idempotenceKey
        /\ CallOf(r).idempotenceKey = Undefined
              => ~ Truthy(requests[r].args.idempotenceKey)

\* A call with a key was followed by a call without one.
C2_Witness ==
    /\ Len(requests) = 2
    /\ calls[1].idempotenceKey = Str("6daac9fa-342d")
    /\ requests[1].args.idempotenceKey = Str("6daac9fa-342d")
    /\ calls[2].idempotenceKey = Undefined
    /\ requests[2].args.idempotenceKey = Undefined

\* The result model of each operation.
ModelOf(op) ==
    IF op \in {"createRefund", "getRefund"} THEN "Refund" ELSE "Payment"

\* C3: when the raw call resolves with data d, the public operation resolves
\* to its own model type built from exactly d, never to the raw response.
C3_ResolvesToModel ==
    \A i \in DOMAIN calls :
        LET raw == requests[calls[i].raw].promise
            p == calls[i].promise
        IN  /\ (raw.state = "fulfilled" /\ p.state # "pending") =>
                  /\ p.state = "fulfilled"
                  /\ p.value = [model |-> ModelOf(calls[i].op), data |-> raw.value]
            /\ p.state = "fulfilled" =>
                  /\ raw.state = "fulfilled"
                  /\ p.value # raw.value

\* A payment operation and a refund operation have both resolved.
C3_Witness ==
    /\ \E i \in DOMAIN calls :
          calls[i].promise.state = "fulfilled" /\ ModelOf(calls[i].op) = "Refund"
    /\ \E i \in DOMAIN calls :
          calls[i].promise.state = "fulfilled" /\ ModelOf(calls[i].op) = "Payment"

\* C4: when the raw call fails with e, the public promise rejects with that
\* same e; no model is built and the call is not reported as a success.
C4_RejectsUnchanged ==
    \A i \in DOMAIN calls :
        LET raw == requests[calls[i].raw].promise
            p == calls[i].promise
        IN  /\ (raw.state = "rejected" /\ p.state # "pending") =>
                  /\ p.state = "rejected"
                  /\ p.reason = raw.reason
            /\ p.state = "rejected" => raw.state = "rejected"

\* One call has failed with an API error and another with a transport error.
C4_Witness ==
    /\ \E i \in DOMAIN calls :
          calls[i].promise = Rejected([name |-> "APIError", status |-> "401"])
    /\ \E i \in DOMAIN calls :
          calls[i].promise = Rejected([name |-> "TransportError"])

\* The requests issued for call i.
RequestsOf(i, reqs) ==
    {r \in DOMAIN reqs : reqs[r].call = i}

\* C5: every invocation issues exactly one request to utils.request, before
\* and after that request settles, and its promise settles once, after the
\* request has settled.
C5_SingleAttempt ==
    [][/\ \A i \in DOMAIN calls' : Cardinality(RequestsOf(i, requests')) = 1
       /\ \A i \in DOMAIN calls :
             /\ calls'[i].raw = calls[i].raw
             /\ calls[i].promise.state # "pending"
                   => calls'[i].promise = calls[i].promise
             /\ (calls[i].promise.state = "pending" /\ calls'[i].promise.state # "pending")
                   => requests[calls[i].raw].promise.state # "pending"]_vars

\* A call failed and settled, and its request is still the only one issued
\* for it.
C5_Witness ==
    \E i \in DOMAIN calls :
        /\ calls[i].promise.state = "rejected"
        /\ requests[calls[i].raw].promise.state = "rejected"
        /\ RequestsOf(i, requests) = {calls[i].raw}

\* C8: after any sequence of operations, succeeding or failing, every
\* configuration field equals the value the constructor set.
C8_ConfigurationImmutable ==
    /\ client.status = "returned"
    /\ client.this = init(ctorArgs[1], ctorArgs[2], DEFAULT_TIMEOUT).this
    /\ client.this.shopId = Str("shop-1")
    /\ client.this.secretKey = Str("secret-1")
    /\ client.this.root = Str("https://sandbox.example/v3/")
    /\ client.this.debug = Bool(TRUE)
    /\ client.this.timeout = DEFAULT_TIMEOUT

\* One operation has succeeded and another has failed.
C8_Witness ==
    /\ \E i \in DOMAIN calls : calls[i].promise.state = "fulfilled"
    /\ \E i \in DOMAIN calls : calls[i].promise.state = "rejected"

\* C9: concurrent calls are independent: no step changes what an issued
\* request carries, a step settles the promise of one call at most, and a
\* call's promise settles with the outcome of its own request.
C9_CallsIndependent ==
    [][/\ \A r \in DOMAIN requests :
             /\ requests'[r].call = requests[r].call
             /\ requests'[r].args = requests[r].args
             /\ requests'[r].wire = requests[r].wire
       /\ \A i \in DOMAIN calls, j \in DOMAIN calls :
             (calls'[i] # calls[i] /\ calls'[j] # calls[j]) => i = j
       /\ \A i \in DOMAIN calls :
             calls'[i].promise # calls[i].promise =>
                LET own == requests[calls[i].raw] IN
                /\ own.call = i
                /\ own.promise.state = "fulfilled" =>
                      /\ calls'[i].promise.state = "fulfilled"
                      /\ calls'[i].promise.value.data = own.promise.value
                /\ own.promise.state = "rejected" =>
                      calls'[i].promise = own.promise
                /\ own.promise.state # "pending"]_vars

\* The second call has settled with its own response while the first call's
\* request is still in flight.
C9_Witness ==
    /\ Len(calls) = 2
    /\ requests[calls[1].raw].promise.state = "pending"
    /\ calls[1].promise.state = "pending"
    /\ calls[2].promise.state = "fulfilled"
    /\ calls[2].promise.value.data = requests[calls[2].raw].promise.value

====
